---- MODULE Spec2Model ----
(***************************************************************************)
(* The simulation driver of examples/Example3a_MIMO_spatial_multiplexing   *)
(* (a convolutionally coded spatial-multiplexing MIMO link).  The notebook *)
(* is a sequential program: its cells are executed top to bottom, so the   *)
(* model is a program counter `pc` walking through the statements of the   *)
(* interleaver set-up cell and of the simulation cell.  Bit vectors are    *)
(* modelled by their length, the packet they belong to and the list of     *)
(* library routines they went through; random draws (interleaver           *)
(* permutations, channel matrices, decoding errors) are nondeterministic.  *)
(***************************************************************************)
EXTENDS Integers, Sequences, FiniteSets, TLC

(***************************************************************************)
(* Bounds of the model.                                                    *)
(***************************************************************************)
MaxUncodedBits == 2
MaxSmallBits == 4
MaxCoherentSamples == 3
MaxSlowPackets == 202
MaxFlagWords == 1

(***************************************************************************)
(* Parameters written in the notebook.                                     *)
(***************************************************************************)
NrofGenerators == 3
constraint_length == 7
ConfiguredUncodedBits == 1000
ConfiguredConstellationIndex == 1
ConfiguredAntennas == 4
ConfiguredCoherentSamples == 10
ConfiguredMaxBits == 50000
ConfiguredSnrPoints == 21

VARIABLES
    par,                        \* the parameters set in the set-up cells
    pc,                         \* the statement executed next
    snr_index,
    nrof_bits,
    sequence_interleaver_b,
    sequence_interleaver_i,
    channel_coefficients,
    received_symbols,
    information_bits,
    transmit_bits,
    llr_in,
    llr_deinterleaved,
    decoded_bits,
    uncoded_bit_error_counter,
    coded_bit_error_counter,
    frame_error_counter,
    simulated_bits,             \* the "simulated bits" column printed so far
    make                        \* the variables of make while makerules is read

vars == <<par, pc, snr_index, nrof_bits, sequence_interleaver_b,
          sequence_interleaver_i, channel_coefficients, received_symbols,
          information_bits, transmit_bits, llr_in, llr_deinterleaved,
          decoded_bits, uncoded_bit_error_counter, coded_bit_error_counter,
          frame_error_counter, simulated_bits, make>>

Max(a, b) == IF a >= b THEN a ELSE b
Min(a, b) == IF a <= b THEN a ELSE b

(***************************************************************************)
(* Set-up cells: derived parameters.                                       *)
(***************************************************************************)
\* conv_code.encode_tail appends constraint_length - 1 tail bits and emits
\* one coded bit per generator polynomial and input bit.
EncodeTailLength(n) == (n + constraint_length - 1) * NrofGenerators

nrof_coded_bits == EncodeTailLength(par.nrof_uncoded_bits)

nrof_bits_per_channel_use ==
    2 * par.constellation_index * par.nrof_transmit_antenna

\* int(a / b) of two non-negative numbers truncates, i.e. rounds down.
nrof_channel_use == nrof_coded_bits \div nrof_bits_per_channel_use

nrof_transmit_bits == nrof_bits_per_channel_use * nrof_channel_use

nrof_channel_samples == (nrof_channel_use \div par.nrof_coherent_samples) + 1

\* Stopping parameters: fast fading when nrof_coherent_samples = 1.
\* A minimum error rate is a pair <<numerator, denominator>>.
ber_min == IF par.nrof_coherent_samples = 1 THEN <<1, 1000>> ELSE <<-1, 1>>
fer_min == IF par.nrof_coherent_samples = 1 THEN <<-1, 1>> ELSE <<1, 100>>
nrof_bers == IF par.nrof_coherent_samples = 1 THEN 2000 ELSE -1
nrof_fers == IF par.nrof_coherent_samples = 1 THEN -1 ELSE 200

(***************************************************************************)
(* The parameter settings explored.                                        *)
(***************************************************************************)
Configured ==
    [nrof_uncoded_bits |-> ConfiguredUncodedBits,
     constellation_index |-> ConfiguredConstellationIndex,
     nrof_transmit_antenna |-> ConfiguredAntennas,
     nrof_coherent_samples |-> ConfiguredCoherentSamples,
     nrof_max_bits |-> ConfiguredMaxBits,
     nrof_snr_points |-> ConfiguredSnrPoints]

\* The notebook's setting at a single SNR point.
ConfiguredOnePoint == [Configured EXCEPT !.nrof_snr_points = 1]

\* The notebook's packet size, bit budget, slow fading and 21 SNR points on a
\* wide link (64 antennas, 64-QAM), which needs few channel uses per packet.
ConfiguredWide ==
    [Configured EXCEPT !.nrof_transmit_antenna = 64,
                       !.constellation_index = 3]

\* The notebook's setting with a fast fading channel and one SNR point.
FastFading ==
    [Configured EXCEPT !.nrof_coherent_samples = 1, !.nrof_snr_points = 1]

\* A slow fading setting long enough to count more than 200 frame errors.
SlowFadingLong ==
    [nrof_uncoded_bits |-> 10,
     constellation_index |-> 1,
     nrof_transmit_antenna |-> 2,
     nrof_coherent_samples |-> 5,
     nrof_max_bits |-> 10 * MaxSlowPackets,
     nrof_snr_points |-> 1]

SmallSettings ==
    [nrof_uncoded_bits : 1..MaxUncodedBits,
     constellation_index : {1},
     nrof_transmit_antenna : {1},
     nrof_coherent_samples : 1..MaxCoherentSamples,
     nrof_max_bits : 1..MaxSmallBits,
     nrof_snr_points : {2}]

Settings ==
    {ConfiguredOnePoint, ConfiguredWide, FastFading, SlowFadingLong}
        \cup SmallSettings

(***************************************************************************)
(* Interleaver sequences.  An interleaver of depth d holds a permutation   *)
(* of 0..d-1; the constructor and randomize_interleaver_sequence draw a    *)
(* random one.  The draws are taken from three permutations, held by name: *)
(* SequenceElement gives their elements.                                   *)
(***************************************************************************)
SequenceElement(name, d, i) ==
    CASE name = "identity" -> i
      [] name = "reverse" -> d - 1 - i
      [] name = "rotate" -> (i + 1) % d

MaxEnumeratedDepth == EncodeTailLength(MaxUncodedBits)

RandomSequences(d) ==
    IF d <= MaxEnumeratedDepth
    THEN {"identity", "reverse", "rotate"}
    ELSE {"reverse"}

ConstructorSequences(d) == RandomSequences(d) \cup {"identity"}

(***************************************************************************)
(* Data.                                                                   *)
(***************************************************************************)
NoPacket == <<>>
NoMatrix == <<>>
EmptyVec == [pkt |-> NoPacket, stages |-> <<>>, len |-> 0]
\* The tag of a vector: the packet it carries and the routines it went through.
NoTag == [pkt |-> NoPacket, stages |-> <<>>]

\* The packet being simulated: the SNR point and the bit count after line 238.
CurrentPacket == <<snr_index, nrof_bits>>

ClearedCounter == [errors |-> 0, corrects |-> 0]

\* The notebook does not read makerules: make has not run.
MakeNotRun == [pc |-> "none"]

Init ==
    /\ make = MakeNotRun
    /\ par \in Settings
    /\ pc = "randomize"
    /\ snr_index = 0
    /\ nrof_bits = 0
    /\ \E s \in ConstructorSequences(nrof_coded_bits) :
          sequence_interleaver_b =
              [interleaver_depth |-> nrof_coded_bits, interleaver_sequence |-> s]
    /\ \E s \in ConstructorSequences(nrof_coded_bits) :
          sequence_interleaver_i =
              [interleaver_depth |-> nrof_coded_bits, interleaver_sequence |-> s]
    /\ channel_coefficients = [i \in 1..nrof_channel_samples |-> NoMatrix]
    /\ received_symbols = [src |-> NoTag,
                           chan |-> [k \in 1..nrof_channel_use |-> NoMatrix]]
    /\ information_bits = EmptyVec
    /\ transmit_bits = EmptyVec
    /\ llr_in = [len |-> nrof_coded_bits, src |-> NoTag,
                 chan |-> [k \in 1..nrof_channel_use |-> NoMatrix]]
    /\ llr_deinterleaved = EmptyVec
    /\ decoded_bits = [pkt |-> NoPacket, stages |-> <<>>, len |-> 0, errors |-> 0]
    /\ uncoded_bit_error_counter = [counted |-> 0]
    /\ coded_bit_error_counter = ClearedCounter
    /\ frame_error_counter = ClearedCounter
    /\ simulated_bits = <<>>

(***************************************************************************)
(* Interleaver set-up (cell 4).                                            *)
(***************************************************************************)
RandomizeInterleaverSequence ==
    /\ pc = "randomize"
    /\ \E s \in RandomSequences(sequence_interleaver_b.interleaver_depth) :
          sequence_interleaver_b' =
              [sequence_interleaver_b EXCEPT !.interleaver_sequence = s]
    /\ pc' = "set_sequence"
    /\ UNCHANGED <<make, par, snr_index, nrof_bits, sequence_interleaver_i,
                   channel_coefficients, received_symbols, information_bits,
                   transmit_bits, llr_in, llr_deinterleaved, decoded_bits,
                   uncoded_bit_error_counter, coded_bit_error_counter,
                   frame_error_counter, simulated_bits>>

\* Variant: the sequence of the bit interleaver is not copied.
SetSequenceSkipped(target, source) == target

\* sequence_interleaver_i.set_interleaver_sequence(
\*     sequence_interleaver_b.get_interleaver_sequence())
SetSequence(target, source) ==
    [target EXCEPT !.interleaver_sequence = source.interleaver_sequence]

SetInterleaverSequence ==
    /\ pc = "set_sequence"
    /\ sequence_interleaver_i' =
          SetSequence(sequence_interleaver_i, sequence_interleaver_b)
    /\ pc' = "for_snr"
    /\ UNCHANGED <<make, par, snr_index, nrof_bits, sequence_interleaver_b,
                   channel_coefficients, received_symbols, information_bits,
                   transmit_bits, llr_in, llr_deinterleaved, decoded_bits,
                   uncoded_bit_error_counter, coded_bit_error_counter,
                   frame_error_counter, simulated_bits>>

(***************************************************************************)
(* The simulation cell (cell 7).  After(p) is the statement that follows   *)
(* statement p inside the body of the while loop.                          *)
(***************************************************************************)
\* Variant: the termination check runs before the frame errors are counted.
AfterCheckEarly(p) ==
    CASE p = "incr" -> "encode"
      [] p = "encode" -> "pad"
      [] p = "pad" -> "interleave"
      [] p = "interleave" -> "channel"
      [] p = "channel" -> "demodulate"
      [] p = "demodulate" -> "deinterleave"
      [] p = "deinterleave" -> "decode"
      [] p = "decode" -> "count_uncoded"
      [] p = "count_uncoded" -> "count_coded"
      [] p = "count_coded" -> "check_bers"
      [] p = "count_frame" -> "check_bers"

After(p) ==
    CASE p = "incr" -> "encode"
      [] p = "encode" -> "pad"
      [] p = "pad" -> "interleave"
      [] p = "interleave" -> "channel"
      [] p = "channel" -> "demodulate"
      [] p = "demodulate" -> "deinterleave"
      [] p = "deinterleave" -> "decode"
      [] p = "decode" -> "count_uncoded"
      [] p = "count_uncoded" -> "count_coded"
      [] p = "count_coded" -> "count_frame"
      [] p = "count_frame" -> "check_bers"

\* for snr_index in range(EbN0_db.length()):
ForSnr ==
    /\ pc = "for_snr"
    /\ pc' = IF snr_index < par.nrof_snr_points THEN "clear" ELSE "done"
    /\ UNCHANGED <<make, par, snr_index, nrof_bits, sequence_interleaver_b,
                   sequence_interleaver_i, channel_coefficients,
                   received_symbols, information_bits, transmit_bits, llr_in,
                   llr_deinterleaved, decoded_bits, uncoded_bit_error_counter,
                   coded_bit_error_counter, frame_error_counter,
                   simulated_bits>>

ClearCounters ==
    /\ pc = "clear"
    /\ uncoded_bit_error_counter' = [counted |-> 0]
    /\ coded_bit_error_counter' = ClearedCounter
    /\ frame_error_counter' = ClearedCounter
    /\ pc' = "init_bits"
    /\ UNCHANGED <<make, par, snr_index, nrof_bits, sequence_interleaver_b,
                   sequence_interleaver_i, channel_coefficients,
                   received_symbols, information_bits, transmit_bits, llr_in,
                   llr_deinterleaved, decoded_bits, simulated_bits>>

InitBits ==
    /\ pc = "init_bits"
    /\ nrof_bits' = 0
    /\ pc' = "while"
    /\ UNCHANGED <<make, par, snr_index, sequence_interleaver_b,
                   sequence_interleaver_i, channel_coefficients,
                   received_symbols, information_bits, transmit_bits, llr_in,
                   llr_deinterleaved, decoded_bits, uncoded_bit_error_counter,
                   coded_bit_error_counter, frame_error_counter,
                   simulated_bits>>

\* Variant: one more packet when the budget is met exactly.
WhileConditionInclusive == nrof_bits <= par.nrof_max_bits

\* while (nrof_bits < nrof_max_bits):
WhileCondition == nrof_bits < par.nrof_max_bits

While ==
    /\ pc = "while"
    /\ pc' = IF WhileCondition THEN "incr" ELSE "report"
    /\ UNCHANGED <<make, par, snr_index, nrof_bits, sequence_interleaver_b,
                   sequence_interleaver_i, channel_coefficients,
                   received_symbols, information_bits, transmit_bits, llr_in,
                   llr_deinterleaved, decoded_bits, uncoded_bit_error_counter,
                   coded_bit_error_counter, frame_error_counter,
                   simulated_bits>>

\* nrof_bits = nrof_bits + nrof_uncoded_bits
Incr ==
    /\ pc = "incr"
    /\ nrof_bits' = nrof_bits + par.nrof_uncoded_bits
    /\ pc' = After("incr")
    /\ UNCHANGED <<make, par, snr_index, sequence_interleaver_b,
                   sequence_interleaver_i, channel_coefficients,
                   received_symbols, information_bits, transmit_bits, llr_in,
                   llr_deinterleaved, decoded_bits, uncoded_bit_error_counter,
                   coded_bit_error_counter, frame_error_counter,
                   simulated_bits>>

\* information_bits = randb(nrof_uncoded_bits); encode_tail(...)
Encode ==
    /\ pc = "encode"
    /\ information_bits' = [pkt |-> CurrentPacket, stages |-> <<"randb">>,
                            len |-> par.nrof_uncoded_bits]
    /\ transmit_bits' = [pkt |-> CurrentPacket,
                         stages |-> <<"randb", "encode_tail">>,
                         len |-> EncodeTailLength(par.nrof_uncoded_bits)]
    /\ pc' = After("encode")
    /\ UNCHANGED <<make, par, snr_index, nrof_bits, sequence_interleaver_b,
                   sequence_interleaver_i, channel_coefficients,
                   received_symbols, llr_in, llr_deinterleaved, decoded_bits,
                   uncoded_bit_error_counter, coded_bit_error_counter,
                   frame_error_counter, simulated_bits>>

\* itpp.randb(size): a vector of size bits; a size below one gives the empty
\* vector (the recorded run of the notebook passes -2 and completes).
RandbLength(size) == Max(0, size)

\* The size handed to randb at line 246.
PaddingLength == nrof_transmit_bits - nrof_coded_bits

\* transmit_bits = concat(transmit_bits, randb(nrof_transmit_bits - nrof_coded_bits))
Pad ==
    /\ pc = "pad"
    /\ transmit_bits' =
          [transmit_bits EXCEPT
              !.stages = Append(@, "concat"),
              !.len = @ + RandbLength(PaddingLength)]
    /\ pc' = After("pad")
    /\ UNCHANGED <<make, par, snr_index, nrof_bits, sequence_interleaver_b,
                   sequence_interleaver_i, channel_coefficients,
                   received_symbols, information_bits, llr_in,
                   llr_deinterleaved, decoded_bits, uncoded_bit_error_counter,
                   coded_bit_error_counter, frame_error_counter,
                   simulated_bits>>

\* An interleaver works on whole blocks of interleaver_depth elements.
InterleavedLength(len, depth) == ((len + depth - 1) \div depth) * depth

\* transmit_bits = sequence_interleaver_b.interleave(transmit_bits)
Interleave ==
    /\ pc = "interleave"
    /\ transmit_bits' =
          [transmit_bits EXCEPT
              !.stages = Append(@, "interleave"),
              !.len = InterleavedLength(@,
                          sequence_interleaver_b.interleaver_depth)]
    /\ pc' = After("interleave")
    /\ UNCHANGED <<make, par, snr_index, nrof_bits, sequence_interleaver_b,
                   sequence_interleaver_i, channel_coefficients,
                   received_symbols, information_bits, llr_in,
                   llr_deinterleaved, decoded_bits, uncoded_bit_error_counter,
                   coded_bit_error_counter, frame_error_counter,
                   simulated_bits>>

(***************************************************************************)
(* Channel generation and demodulation loops over the channel uses.        *)
(***************************************************************************)
\* channel_sample_index = int(k / nrof_coherent_samples)
channel_sample_index(k) == k \div par.nrof_coherent_samples

\* Variant: a new channel matrix at every channel use.
DrawsChannelAlways(k) == TRUE

\* if (k % nrof_coherent_samples == 0): draw a new channel matrix
DrawsChannel(k) == k % par.nrof_coherent_samples = 0

\* A matrix drawn by randn_c is identified by the packet and the channel use
\* it was drawn at: two draws never give the same matrix.
NewMatrix(k) == <<snr_index, nrof_bits, k>>

\* Body of the loop at lines 250-262 for channel use k: st[1] is
\* channel_coefficients, st[2] the channel matrix that shaped each received
\* symbol.
GenerateBody(k, st) ==
    LET idx == channel_sample_index(k)
        cc1 == IF DrawsChannel(k)
               THEN [st[1] EXCEPT ![idx + 1] = NewMatrix(k)]
               ELSE st[1]
    IN  <<cc1, [st[2] EXCEPT ![k + 1] = cc1[idx + 1]]>>

\* for k in range(lo, hi): the iterations run in increasing order of k.  The
\* range is split in two and the first half is evaluated (its length test)
\* before the second half starts, which keeps the evaluation shallow.
RECURSIVE GenerateLoop(_, _, _)
GenerateLoop(lo, hi, st) ==
    IF hi <= lo THEN st
    ELSE IF hi = lo + 1 THEN GenerateBody(lo, st)
    ELSE LET mid == (lo + hi) \div 2
             first == GenerateLoop(lo, mid, st)
         IN  IF Len(first) = 2 THEN GenerateLoop(mid, hi, first) ELSE first

\* sym = modulate_bits(transmit_bits.mid(...)); received = channel * sym + noise
ReceivedTag ==
    IF nrof_channel_use = 0 THEN received_symbols.src
    ELSE [pkt |-> transmit_bits.pkt,
          stages |-> transmit_bits.stages \o <<"modulate_bits", "channel">>]

Channel ==
    /\ pc = "channel"
    /\ LET r == GenerateLoop(0, nrof_channel_use,
                            <<channel_coefficients, received_symbols.chan>>)
       IN  /\ channel_coefficients' = r[1]
           /\ received_symbols' = [src |-> ReceivedTag, chan |-> r[2]]
    /\ pc' = After("channel")
    /\ UNCHANGED <<make, par, snr_index, nrof_bits, sequence_interleaver_b,
                   sequence_interleaver_i, information_bits, transmit_bits,
                   llr_in, llr_deinterleaved, decoded_bits,
                   uncoded_bit_error_counter, coded_bit_error_counter,
                   frame_error_counter, simulated_bits>>

\* The channel matrix handed to demodulate_soft_bits for channel use k.
DemodulationMatrix(k) == channel_coefficients[channel_sample_index(k) + 1]

\* llr_in.clear() keeps the length and zeroes the elements.
ClearedLlr == [len |-> llr_in.len, src |-> NoTag,
               chan |-> [k \in 1..Len(llr_in.chan) |-> NoMatrix]]

\* Body of the loop at lines 268-277 for channel use k: the soft bits of
\* channel use k are computed from received_symbols[k] and a channel matrix.
DemodulateBody(k, chan) == [chan EXCEPT ![k + 1] = DemodulationMatrix(k)]

RECURSIVE DemodulateLoop(_, _, _)
DemodulateLoop(lo, hi, chan) ==
    IF hi <= lo THEN chan
    ELSE IF hi = lo + 1 THEN DemodulateBody(lo, chan)
    ELSE LET mid == (lo + hi) \div 2
             first == DemodulateLoop(lo, mid, chan)
         IN  IF Len(first) = Len(chan)
             THEN DemodulateLoop(mid, hi, first)
             ELSE first

DemodulatedTag ==
    IF nrof_channel_use = 0 THEN NoTag
    ELSE [pkt |-> received_symbols.src.pkt,
          stages |-> Append(received_symbols.src.stages,
                            "demodulate_soft_bits")]

Demodulate ==
    /\ pc = "demodulate"
    /\ llr_in' = [ClearedLlr EXCEPT
                     !.src = DemodulatedTag,
                     !.chan = DemodulateLoop(0, nrof_channel_use, @)]
    /\ pc' = After("demodulate")
    /\ UNCHANGED <<make, par, snr_index, nrof_bits, sequence_interleaver_b,
                   sequence_interleaver_i, channel_coefficients,
                   received_symbols, information_bits, transmit_bits,
                   llr_deinterleaved, decoded_bits, uncoded_bit_error_counter,
                   coded_bit_error_counter, frame_error_counter,
                   simulated_bits>>

(***************************************************************************)
(* Decoding and error counting.                                            *)
(***************************************************************************)
\* llr_deinterleaved = sequence_interleaver_i.deinterleave(llr_in, keepzeroes=0)
Deinterleave ==
    /\ pc = "deinterleave"
    /\ llr_deinterleaved' =
          [pkt |-> llr_in.src.pkt,
           stages |-> Append(llr_in.src.stages, "deinterleave"),
           len |-> InterleavedLength(llr_in.len,
                       sequence_interleaver_i.interleaver_depth)]
    /\ pc' = After("deinterleave")
    /\ UNCHANGED <<make, par, snr_index, nrof_bits, sequence_interleaver_b,
                   sequence_interleaver_i, channel_coefficients,
                   received_symbols, information_bits, transmit_bits, llr_in,
                   decoded_bits, uncoded_bit_error_counter,
                   coded_bit_error_counter, frame_error_counter,
                   simulated_bits>>

\* decode_tail undoes encode_tail: it drops the tail and returns one bit per
\* NrofGenerators soft values.
DecodeTailLength(n) == Max(0, (n \div NrofGenerators) - (constraint_length - 1))

\* The number of decoded bits that differ from the information bits is the
\* outcome of the random channel: every count for a short packet, none or all
\* for a long one.
CodedErrorChoices(n) == IF n <= MaxUncodedBits THEN 0..n ELSE {0, n}

\* llr = to_double(llr_deinterleaved.left(nrof_coded_bits)); decode_tail(llr, decoded_bits)
Decode ==
    /\ pc = "decode"
    /\ LET n == DecodeTailLength(Min(llr_deinterleaved.len, nrof_coded_bits))
       IN  \E e \in CodedErrorChoices(n) :
              decoded_bits' =
                  [pkt |-> llr_deinterleaved.pkt,
                   stages |-> llr_deinterleaved.stages
                              \o <<"to_double", "decode_tail">>,
                   len |-> n,
                   errors |-> e]
    /\ pc' = After("decode")
    /\ UNCHANGED <<make, par, snr_index, nrof_bits, sequence_interleaver_b,
                   sequence_interleaver_i, channel_coefficients,
                   received_symbols, information_bits, transmit_bits, llr_in,
                   llr_deinterleaved, uncoded_bit_error_counter,
                   coded_bit_error_counter, frame_error_counter,
                   simulated_bits>>

\* uncoded_bit_error_counter.count(transmit_bits, (llr_in < 0)): only the
\* number of compared bits is kept, no statement reads the uncoded errors
\* but the report.
CountUncoded ==
    /\ pc = "count_uncoded"
    /\ uncoded_bit_error_counter' =
          [counted |-> uncoded_bit_error_counter.counted
                       + Min(transmit_bits.len, llr_in.len)]
    /\ pc' = After("count_uncoded")
    /\ UNCHANGED <<make, par, snr_index, nrof_bits, sequence_interleaver_b,
                   sequence_interleaver_i, channel_coefficients,
                   received_symbols, information_bits, transmit_bits, llr_in,
                   llr_deinterleaved, decoded_bits, coded_bit_error_counter,
                   frame_error_counter, simulated_bits>>

\* BERC.count: compares the common length of the two vectors.
BercCount(counter, compared, errors) ==
    [errors |-> counter.errors + errors,
     corrects |-> counter.corrects + (compared - errors)]

\* coded_bit_error_counter.count(information_bits, decoded_bits)
CountCoded ==
    /\ pc = "count_coded"
    /\ LET compared == Min(information_bits.len, decoded_bits.len)
       IN  coded_bit_error_counter' =
              BercCount(coded_bit_error_counter, compared,
                        Min(decoded_bits.errors, compared))
    /\ pc' = After("count_coded")
    /\ UNCHANGED <<make, par, snr_index, nrof_bits, sequence_interleaver_b,
                   sequence_interleaver_i, channel_coefficients,
                   received_symbols, information_bits, transmit_bits, llr_in,
                   llr_deinterleaved, decoded_bits, uncoded_bit_error_counter,
                   frame_error_counter, simulated_bits>>

\* BLERC(blocksize).count: a block is in error when any of its bits differs.
\* A packet holds one block of nrof_uncoded_bits bits.
BlercCount(counter, blocks, errors) ==
    LET bad == IF errors > 0 THEN Min(1, blocks) ELSE 0
    IN  [errors |-> counter.errors + bad,
         corrects |-> counter.corrects + (blocks - bad)]

\* frame_error_counter.count(information_bits, decoded_bits)
CountFrame ==
    /\ pc = "count_frame"
    /\ LET compared == Min(information_bits.len, decoded_bits.len)
       IN  frame_error_counter' =
              BlercCount(frame_error_counter,
                         compared \div par.nrof_uncoded_bits,
                         Min(decoded_bits.errors, compared))
    /\ pc' = After("count_frame")
    /\ UNCHANGED <<make, par, snr_index, nrof_bits, sequence_interleaver_b,
                   sequence_interleaver_i, channel_coefficients,
                   received_symbols, information_bits, transmit_bits, llr_in,
                   llr_deinterleaved, decoded_bits, uncoded_bit_error_counter,
                   coded_bit_error_counter, simulated_bits>>

(***************************************************************************)
(* Termination check.                                                      *)
(***************************************************************************)
\* Variant: the threshold is compared without testing that it is set.
BersReachedUnguarded == coded_bit_error_counter.errors > nrof_bers

\* if (nrof_bers > 0 and coded_bit_error_counter.get_errors() > nrof_bers):
BersReached == nrof_bers > 0 /\ coded_bit_error_counter.errors > nrof_bers

\* if (nrof_fers > 0 and frame_error_counter.get_errors() > nrof_fers):
FersReached == nrof_fers > 0 /\ frame_error_counter.errors > nrof_fers

CheckBers ==
    /\ pc = "check_bers"
    /\ pc' = IF BersReached THEN "break_bers" ELSE "check_fers"
    /\ UNCHANGED <<make, par, snr_index, nrof_bits, sequence_interleaver_b,
                   sequence_interleaver_i, channel_coefficients,
                   received_symbols, information_bits, transmit_bits, llr_in,
                   llr_deinterleaved, decoded_bits, uncoded_bit_error_counter,
                   coded_bit_error_counter, frame_error_counter,
                   simulated_bits>>

CheckFers ==
    /\ pc = "check_fers"
    /\ pc' = IF FersReached THEN "break_fers" ELSE "while"
    /\ UNCHANGED <<make, par, snr_index, nrof_bits, sequence_interleaver_b,
                   sequence_interleaver_i, channel_coefficients,
                   received_symbols, information_bits, transmit_bits, llr_in,
                   llr_deinterleaved, decoded_bits, uncoded_bit_error_counter,
                   coded_bit_error_counter, frame_error_counter,
                   simulated_bits>>

\* break: leave the while loop
Break ==
    /\ pc \in {"break_bers", "break_fers"}
    /\ pc' = "report"
    /\ UNCHANGED <<make, par, snr_index, nrof_bits, sequence_interleaver_b,
                   sequence_interleaver_i, channel_coefficients,
                   received_symbols, information_bits, transmit_bits, llr_in,
                   llr_deinterleaved, decoded_bits, uncoded_bit_error_counter,
                   coded_bit_error_counter, frame_error_counter,
                   simulated_bits>>

\* The error rates are appended and the line of the SNR point is printed;
\* the for loop moves on to the next SNR point.
Report ==
    /\ pc = "report"
    /\ simulated_bits' = Append(simulated_bits, nrof_bits)
    /\ snr_index' = snr_index + 1
    /\ pc' = "for_snr"
    /\ UNCHANGED <<make, par, nrof_bits, sequence_interleaver_b,
                   sequence_interleaver_i, channel_coefficients,
                   received_symbols, information_bits, transmit_bits, llr_in,
                   llr_deinterleaved, decoded_bits, uncoded_bit_error_counter,
                   coded_bit_error_counter, frame_error_counter>>

Next ==
    \/ RandomizeInterleaverSequence
    \/ SetInterleaverSequence
    \/ ForSnr
    \/ ClearCounters
    \/ InitBits
    \/ While
    \/ Incr
    \/ Encode
    \/ Pad
    \/ Interleave
    \/ Channel
    \/ Demodulate
    \/ Deinterleave
    \/ Decode
    \/ CountUncoded
    \/ CountCoded
    \/ CountFrame
    \/ CheckBers
    \/ CheckFers
    \/ Break
    \/ Report

Spec == Init /\ [][Next]_vars

(***************************************************************************)
(* Properties.                                                             *)
(***************************************************************************)
SlowFading == nrof_fers = 200 /\ nrof_bers = -1
FastFadingChannel == nrof_bers = 2000 /\ nrof_fers = -1

\* C1: at every point of the simulation, inside the while loop and when the
\* SNR point is reported, nrof_bits is at most nrof_max_bits.
C1_BitsWithinMaximum == nrof_bits <= par.nrof_max_bits

\* C2: slow fading: once the frame error counter of the SNR point has counted
\* nrof_fers (200) frame errors, the while loop starts no further packet.
C2_StopsAtNrofFers ==
    [][(SlowFading /\ pc = "while"
            /\ frame_error_counter.errors >= nrof_fers) => pc' # "incr"]_vars

\* C3: fast fading: once the coded bit error counter of the SNR point has
\* counted nrof_bers (2000) errors, the while loop starts no further packet.
C3_StopsAtNrofBers ==
    [][(FastFadingChannel /\ pc = "while"
            /\ coded_bit_error_counter.errors >= nrof_bers) => pc' # "incr"]_vars

\* rate < minimum, for a counter that has counted something and a minimum
\* <<numerator, denominator>> that is set (not -1).
RateBelow(counter, minimum) ==
    /\ minimum[1] > 0
    /\ counter.errors + counter.corrects > 0
    /\ counter.errors * minimum[2]
           < minimum[1] * (counter.errors + counter.corrects)

\* C4: when the coded FER is below fer_min or the coded BER is below ber_min,
\* the simulation of the SNR point stops: the while loop starts no further
\* packet.
C4_StopsBelowMinimum ==
    [][(pc = "while"
            /\ (\/ RateBelow(frame_error_counter, fer_min)
                \/ RateBelow(coded_bit_error_counter, ber_min)))
        => pc' # "incr"]_vars

\* C5: a threshold of -1 never ends an SNR point: with nrof_bers = -1 the
\* break of the bit error check is never reached, and with nrof_fers = -1
\* the break of the frame error check is never reached.
C5_UnsetThresholdNeverBreaks ==
    /\ nrof_bers = -1 => pc # "break_bers"
    /\ nrof_fers = -1 => pc # "break_fers"

C5_Witness ==
    /\ nrof_bers = -1
    /\ pc = "check_fers"
    /\ coded_bit_error_counter.errors > 2000

\* C6: with nrof_uncoded_bits = 1000, nrof_max_bits = 50000, nrof_fers = 200
\* and nrof_bers = -1 no break is taken, every SNR point is reported after
\* exactly 50 packets and 50000 bits, and all SNR points are reported.
ConfiguredControl ==
    /\ par.nrof_uncoded_bits = ConfiguredUncodedBits
    /\ par.nrof_max_bits = ConfiguredMaxBits
    /\ SlowFading

AfterSetup == pc \notin {"randomize", "set_sequence"}

C7_SameInterleaverSequence ==
    /\ [](AfterSetup =>
            sequence_interleaver_i.interleaver_sequence
                = sequence_interleaver_b.interleaver_sequence)
    /\ [][AfterSetup =>
            /\ sequence_interleaver_i'.interleaver_sequence
                   = sequence_interleaver_i.interleaver_sequence
            /\ sequence_interleaver_b'.interleaver_sequence
                   = sequence_interleaver_b.interleaver_sequence]_vars

C7_Witness ==
    /\ pc = "decode"
    /\ snr_index = 1
    /\ sequence_interleaver_i.interleaver_sequence = "rotate"

\* C8: nrof_transmit_bits is a multiple of nrof_bits_per_channel_use, it is
\* at least nrof_coded_bits, and the number of padding bits is not negative.
C8_PaddingToWholeChannelUses ==
    pc = "pad" =>
        /\ nrof_transmit_bits % nrof_bits_per_channel_use = 0
        /\ nrof_transmit_bits >= nrof_coded_bits
        /\ PaddingLength >= 0

\* C9: within a packet the channel matrix of channel use k is the one drawn
\* at the start of the coherence interval of k in this packet (matrices of
\* different draws differ, so two channel uses share a matrix iff
\* floor(k1/nrof_coherent_samples) = floor(k2/nrof_coherent_samples); this is
\* also stated for neighbouring channel uses), and the matrix used to
\* demodulate channel use k is the one that shaped received_symbols[k].
InPacketAfterChannel ==
    pc \in {"demodulate", "deinterleave", "decode", "count_uncoded",
            "count_coded", "count_frame", "check_bers", "check_fers"}

InPacketAfterDemodulate == InPacketAfterChannel /\ pc # "demodulate"

C9_ChannelPerCoherenceInterval ==
    LET cs == par.nrof_coherent_samples
    IN  /\ InPacketAfterChannel =>
              /\ \A k \in 0..(nrof_channel_use - 1) :
                    received_symbols.chan[k + 1]
                        = <<snr_index, nrof_bits, cs * (k \div cs)>>
              /\ \A k \in 0..(nrof_channel_use - 2) :
                    (received_symbols.chan[k + 1] = received_symbols.chan[k + 2])
                        <=> (k \div cs = (k + 1) \div cs)
        /\ InPacketAfterDemodulate =>
              \A k \in 0..(nrof_channel_use - 1) :
                  llr_in.chan[k + 1] = received_symbols.chan[k + 1]

C9_Witness ==
    /\ pc = "deinterleave"
    /\ par.nrof_coherent_samples = 2
    /\ nrof_bits = 2 * par.nrof_uncoded_bits
    /\ llr_in.chan[2] = llr_in.chan[1]
    /\ llr_in.chan[3] # llr_in.chan[2]

\* C10: when the termination check of a packet is evaluated, the decoded bits
\* of this packet have gone through encode, pad, interleave, modulate and
\* channel, demodulate, deinterleave and decode in that order, and the three
\* counters have counted this packet.
FullChain ==
    <<"randb", "encode_tail", "concat", "interleave", "modulate_bits",
      "channel", "demodulate_soft_bits", "deinterleave", "to_double",
      "decode_tail">>

C10_CheckAfterWholePacket ==
    pc \in {"check_bers", "check_fers"} =>
        LET packets == nrof_bits \div par.nrof_uncoded_bits
        IN  /\ information_bits.pkt = CurrentPacket
            /\ decoded_bits.pkt = CurrentPacket
            /\ decoded_bits.stages = FullChain
            /\ transmit_bits.stages = SubSeq(FullChain, 1, 4)
            /\ coded_bit_error_counter.errors
                   + coded_bit_error_counter.corrects = nrof_bits
            /\ frame_error_counter.errors
                   + frame_error_counter.corrects = packets
            /\ uncoded_bit_error_counter.counted
                   = packets * Min(transmit_bits.len, llr_in.len)

C10_Witness ==
    /\ pc = "check_fers"
    /\ nrof_bits = 2 * par.nrof_uncoded_bits
    /\ decoded_bits.errors > 0

(***************************************************************************)
(* makerules: the flags of the Python extension.  make reads the file top  *)
(* to bottom; `:=` expands its right-hand side at once.  The value of a    *)
(* variable is the list of its words, an unset variable expands to no      *)
(* word.  The variables the file reads are set by the including makefile   *)
(* or the environment before makerules is read.                            *)
(***************************************************************************)
FlagAlphabet == {"-O0", "-ffast-math"}

WordLists == UNION {[1..k -> FlagAlphabet] : k \in 0..MaxFlagWords}

FastMathSettings == {"", "disable", "enable"}

\* While makerules is read the notebook is not running.
NotebookIdle ==
    /\ par = ConfiguredOnePoint
    /\ pc = "randomize"
    /\ snr_index = 0
    /\ nrof_bits = 0
    /\ sequence_interleaver_b =
          [interleaver_depth |-> nrof_coded_bits,
           interleaver_sequence |-> "identity"]
    /\ sequence_interleaver_i =
          [interleaver_depth |-> nrof_coded_bits,
           interleaver_sequence |-> "identity"]
    /\ channel_coefficients = <<>>
    /\ received_symbols = [src |-> NoTag, chan |-> <<>>]
    /\ information_bits = EmptyVec
    /\ transmit_bits = EmptyVec
    /\ llr_in = [len |-> 0, src |-> NoTag, chan |-> <<>>]
    /\ llr_deinterleaved = EmptyVec
    /\ decoded_bits = [pkt |-> NoPacket, stages |-> <<>>, len |-> 0,
                       errors |-> 0]
    /\ uncoded_bit_error_counter = [counted |-> 0]
    /\ coded_bit_error_counter = ClearedCounter
    /\ frame_error_counter = ClearedCounter
    /\ simulated_bits = <<>>

notebook_vars ==
    <<par, pc, snr_index, nrof_bits, sequence_interleaver_b,
      sequence_interleaver_i, channel_coefficients, received_symbols,
      information_bits, transmit_bits, llr_in, llr_deinterleaved,
      decoded_bits, uncoded_bit_error_counter, coded_bit_error_counter,
      frame_error_counter, simulated_bits>>

MakeInit ==
    /\ NotebookIdle
    /\ \E common \in WordLists, arch \in WordLists, additional \in WordLists,
          user \in WordLists, math \in WordLists,
          fast \in FastMathSettings :
          make = [pc |-> "ifeq",
                  FLAGS_COMMON |-> common,
                  ARCH_FLAGS |-> arch,
                  ADDITIONAL_COMPILER_FLAGS |-> additional,
                  USER_FLAGS |-> user,
                  FLAGS_FAST_MATH |-> fast,
                  FLAGS_COMMON_MATH |-> math,
                  FLAGS_PYTHON |-> <<>>]

\* ifeq ($(FLAGS_FAST_MATH),disable)
FastMathDisabled == make.FLAGS_FAST_MATH = "disable"

\* The else branch holds a comment only.
Ifeq ==
    /\ make.pc = "ifeq"
    /\ make' = [make EXCEPT
                   !.pc = IF FastMathDisabled THEN "common_math"
                          ELSE "python"]
    /\ UNCHANGED notebook_vars

\* FLAGS_COMMON_MATH :=
AssignFlagsCommonMath ==
    /\ make.pc = "common_math"
    /\ make' = [make EXCEPT !.FLAGS_COMMON_MATH = <<>>, !.pc = "python"]
    /\ UNCHANGED notebook_vars

\* Variant: the fixed flags are left to FLAGS_COMMON.
FlagsPythonFromCommon ==
    make.FLAGS_COMMON \o make.ARCH_FLAGS \o <<"-shared", "-O3">>
        \o make.FLAGS_COMMON_MATH \o make.ADDITIONAL_COMPILER_FLAGS
        \o make.USER_FLAGS

\* $(FLAGS_COMMON) $(ARCH_FLAGS) -shared -O3 -std=c++11 -Wall -fPIC
\* $(FLAGS_COMMON_MATH) $(ADDITIONAL_COMPILER_FLAGS) $(USER_FLAGS)
FlagsPythonValue ==
    make.FLAGS_COMMON \o make.ARCH_FLAGS
        \o <<"-shared", "-O3", "-std=c++11", "-Wall", "-fPIC">>
        \o make.FLAGS_COMMON_MATH \o make.ADDITIONAL_COMPILER_FLAGS
        \o make.USER_FLAGS

\* FLAGS_PYTHON := ...
AssignFlagsPython ==
    /\ make.pc = "python"
    /\ make' = [make EXCEPT !.FLAGS_PYTHON = FlagsPythonValue, !.pc = "read"]
    /\ UNCHANGED notebook_vars

MakeNext ==
    \/ Ifeq
    \/ AssignFlagsCommonMath
    \/ AssignFlagsPython

MakeSpec == MakeInit /\ [][MakeNext]_vars

Words(value) == {value[i] : i \in 1..Len(value)}

\* C11: whatever FLAGS_COMMON, ARCH_FLAGS, ADDITIONAL_COMPILER_FLAGS,
\* USER_FLAGS and FLAGS_FAST_MATH are, once makerules is read FLAGS_PYTHON
\* contains -shared, -O3, -std=c++11, -Wall and -fPIC, and FLAGS_COMMON_MATH
\* is empty when FLAGS_FAST_MATH is disable.
C11_PythonFlagsFixed ==
    make.pc = "read" =>
        /\ {"-shared", "-O3", "-std=c++11", "-Wall", "-fPIC"}
               \subseteq Words(make.FLAGS_PYTHON)
        /\ make.FLAGS_FAST_MATH = "disable" => make.FLAGS_COMMON_MATH = <<>>

C11_Witness ==
    /\ make.pc = "read"
    /\ make.FLAGS_FAST_MATH = "disable"
    /\ make.USER_FLAGS = <<"-O0">>
    /\ make.FLAGS_COMMON = <<"-ffast-math">>
    /\ Len(make.FLAGS_PYTHON) = 7

====
